---- MODULE Spec2Model ----
(***************************************************************************)
(* Model of the pre-phase4 governance migration (src/pre-phase4/src/lib.rs) *)
(* apply_tx: for every token of the static TOKENS table it stages the       *)
(* scheduled reward precision and, for every MASP digit position and every  *)
(* MASP epoch below the target epoch, one allowed conversion.               *)
(*                                                                          *)
(* Values of the external crates are modelled by what the code relies on:   *)
(*   - an Address is a record of its variant and payload;                   *)
(*   - an AssetType is the record of the fields that are hashed into it     *)
(*     (token, denomination, digit position, epoch);                        *)
(*   - an I128Sum / AllowedConversion is a set of [asset, amt] entries with *)
(*     pairwise distinct assets and no zero amount (the BTreeMap of the     *)
(*     value sum, which drops zero components);                             *)
(*   - an Option is a sequence of length 0 (None) or 1 (Some).              *)
(***************************************************************************)
EXTENDS Integers, Sequences, FiniteSets, TLC

\* Largest chain Epoch handed to MaspEpoch::try_from_epoch in the model
\* (the deployed call uses Epoch(8000), i.e. MASP epoch 2000).
MaxEpoch == 11

\* src line 91: the masp epoch multiplier passed to try_from_epoch.
MaspEpochMultiplier == 4

VARIABLES
    pc,                 \* position of apply_tx / of the host around it
    epoch,              \* the chain Epoch the target MASP epoch is built from
    native_token,       \* Option<Address>: line 87
    target_masp_epoch,  \* Option<MaspEpoch>: line 91
    tok,                \* index into TOKENS of the loop of line 95
    token_address,      \* Option<Address>: the resolved address, line 97
    asset_types,        \* BTreeMap (epoch, digit) -> AssetType, line 107
    precision_toks,     \* BTreeMap (epoch, digit) -> AllowedConversion, line 108
    reward_deltas,      \* BTreeMap (epoch, digit) -> AllowedConversion, line 109
    digit,              \* index into MaspDigitPos of the loop of line 157
    epochs,             \* epochs the loop of line 160 has still to visit
    reward,             \* the running conversion of line 159
    staged,             \* key -> value: the writes ctx.write has staged
    trace,              \* the sequence of ctx.write calls that succeeded
    failure,            \* Option: the first failure and the writes staged by then
    pre,                \* the persisted state before the migration
    persisted           \* the persisted state of the host

vars == <<pc, epoch, native_token, target_masp_epoch, tok, token_address,
          asset_types, precision_toks, reward_deltas, digit, epochs, reward,
          staged, trace, failure, pre, persisted>>

----------------------------------------------------------------------------
\* Option

None == <<>>
Some(x) == <<x>>
unwrap(o) == o[1]

----------------------------------------------------------------------------
\* Static data

\* line 28
NATIVE_TOKEN_BECH32M == "tnam1q9gr66cvu4hrzm0sd5kmlnjje82gs3xlfg3v6nu7"

\* TokenAddress::Ibc(channel_id, base_token), line 22
Ibc(channel_id, base_token) ==
    [variant |-> "Ibc", channel_id |-> channel_id, base_token |-> base_token]

\* One (TokenAddress, Denomination, Precision) entry of the table
Entry(ta, denomination, precision) ==
    [token_address |-> ta, denomination |-> denomination,
     precision |-> precision]

\* lines 31-82
TOKENS ==
    << Entry(Ibc("channel-1", "uosmo"),     0, 50000000),
       Entry(Ibc("channel-2", "uatom"),     0, 10000000),
       Entry(Ibc("channel-3", "utia"),      0, 10000000),
       Entry(Ibc("channel-0", "stuosmo"),   0, 50000000),
       Entry(Ibc("channel-0", "stuatom"),   0, 10000000),
       Entry(Ibc("channel-0", "stutia"),    0, 10000000),
       Entry(Ibc("channel-4", "upenumbra"), 0, 50000000),
       Entry(Ibc("channel-5", "uusdc"),     0, 50000000),
       Entry(Ibc("channel-6", "unym"),      0, 250000000),
       Entry(Ibc("channel-7", "untrn"),     0, 100000000) >>

\* MaspDigitPos::iter(): Zero, One, Two, Three (line 157)
MaspDigitPos == <<0, 1, 2, 3>>

----------------------------------------------------------------------------
\* Addresses

\* Address::from_str of a bech32m literal (lines 87, 102).  The only literal
\* the program parses is the native token's, whose "tnam1q" discriminant
\* decodes to an established address.
Address_from_str(s) == Some([variant |-> "Established", hash |-> s])

\* line 99: format!("transfer/{channel_id}/{base_token}")
ibc_denom(channel_id, base_token) ==
    "transfer/" \o channel_id \o "/" \o base_token

\* ibc::ibc_token (line 100): the internal IBC-token address of the hash of
\* the denomination string; the hash is modelled as collision free.
ibc_token(denom) == [variant |-> "IbcToken", hash |-> denom]

\* lines 97-104: the match on the TokenAddress
ResolveAddress(ta) ==
    IF ta.variant = "Ibc"
    THEN Some(ibc_token(ibc_denom(ta.channel_id, ta.base_token)))
    ELSE Address_from_str(ta.addr)

\* the comparison of line 150 inverted
IsNativeTokenInverted(addr, native) == addr # native

\* line 150: token_address == native_token
IsNativeToken(addr, native) == addr = native

----------------------------------------------------------------------------
\* Epochs

\* MaspEpoch::try_from_epoch (line 91): epoch.checked_div(multiplier)
try_from_epoch(e, multiplier) ==
    IF multiplier = 0 THEN None ELSE Some(e \div multiplier)

\* MaspEpoch::zero (line 161)
MaspEpochZero == 0

\* MaspEpoch::prev (line 162): checked_sub(1)
prev(e) == IF e = 0 THEN None ELSE Some(e - 1)

\* MaspEpoch::next (line 140): checked_add(1) on a u64; None only at u64::MAX,
\* which no epoch range of the model comes near.
next(e) == Some(e + 1)

\* a range that runs one epoch past its upper end
iter_bounds_past_end(start, end) ==
    IF end + 1 < start THEN <<>> ELSE [i \in 1..(end - start + 2) |-> start + i - 1]

\* MaspEpoch::iter_bounds_inclusive(start, end) (line 160)
iter_bounds_inclusive(start, end) ==
    IF end < start THEN <<>> ELSE [i \in 1..(end - start + 1) |-> start + i - 1]

\* the range walked without .rev()
not_reversed(s) == s

\* Iterator::rev (line 164)
rev(s) == [i \in 1..Len(s) |-> s[Len(s) + 1 - i]]

\* the range closed at the target epoch itself instead of its predecessor
LastEpochIsTarget(target) == Some(target)

\* line 162: the upper end of the epoch range, target_masp_epoch.prev()
LastEpoch(target) == prev(target)

----------------------------------------------------------------------------
\* Asset types and value sums

\* an encoding that leaves the digit position out of the hashed fields
encode_asset_type_without_position(token, denomination, position, e) ==
    [token |-> token, denomination |-> denomination, position |-> 0,
     epoch |-> e]

\* encode_asset_type(token, denomination, digit, Some(epoch)) (lines 113, 167):
\* the asset type derived from the hash of the four fields, modelled as
\* collision free.
encode_asset_type(token, denomination, position, e) ==
    [token |-> token, denomination |-> denomination, position |-> position,
     epoch |-> e]

\* I128Sum::zero (line 159)
ZeroSum == {}

Assets(s) == {x.asset : x \in s}

Get(s, a) == IF a \in Assets(s) THEN (CHOOSE x \in s : x.asset = a).amt ELSE 0

\* I128Sum::from_pair(asset, amount) (line 127): the zero amount is the empty sum
from_pair(a, amount) ==
    IF amount = 0 THEN {} ELSE {[asset |-> a, amt |-> amount]}

\* Neg of an AllowedConversion (line 139)
NegSum(s) == {[asset |-> x.asset, amt |-> 0 - x.amt] : x \in s}

\* Add / AddAssign of AllowedConversion (lines 139-140, 174): component-wise
\* sum, components that become zero are dropped.
AddSum(s, t) ==
    {x \in {[asset |-> a, amt |-> Get(s, a) + Get(t, a)] :
                a \in Assets(s) \cup Assets(t)} : x.amt # 0}

----------------------------------------------------------------------------
\* The memoizing closures of lines 107-142.  A cache state is the record
\* [at, pt, rd] of the three maps asset_types, precision_toks, reward_deltas.

EmptyMap == [k \in {} |-> 0]

\* cache entries keyed by the digit alone
CacheKeyDigitOnly(e, d) == <<0, d>>

\* the key of .entry((epoch, digit)), lines 112, 125, 137
CacheKey(e, d) == <<e, d>>

\* lines 111-121: asset_type(epoch, digit), or_insert_with
AssetTypeStep(c, token, denomination, e, d) ==
    IF CacheKey(e, d) \in DOMAIN c.at THEN c
    ELSE [c EXCEPT !.at = c.at @@
            (CacheKey(e, d) :> encode_asset_type(token, denomination, d, e))]

\* lines 123-133: precision_tok(epoch, digit), or_insert_with
PrecisionTokStep(c, token, denomination, precision, e, d) ==
    IF CacheKey(e, d) \in DOMAIN c.pt THEN c
    ELSE LET c1 == AssetTypeStep(c, token, denomination, e, d)
         IN  [c1 EXCEPT !.pt = c1.pt @@
                (CacheKey(e, d) :> from_pair(c1.at[CacheKey(e, d)], precision))]

\* the delta without the negation of its first term
RewardDeltaValueUnnegated(lo, hi) == AddSum(lo, hi)

\* line 139-140: -precision_tok(epoch) + precision_tok(epoch.next().unwrap())
RewardDeltaValue(lo, hi) == AddSum(NegSum(lo), hi)

\* lines 135-142: reward_delta(epoch, digit), or_insert_with; the closure
\* evaluates precision_tok(epoch) before precision_tok(epoch.next())
RewardDeltaStep(c, token, denomination, precision, e, d) ==
    IF CacheKey(e, d) \in DOMAIN c.rd THEN c
    ELSE LET c1 == PrecisionTokStep(c, token, denomination, precision, e, d)
             lo == c1.pt[CacheKey(e, d)]
             e1 == unwrap(next(e))
             c2 == PrecisionTokStep(c1, token, denomination, precision, e1, d)
             hi == c2.pt[CacheKey(e1, d)]
         IN  [c2 EXCEPT !.rd = c2.rd @@
                (CacheKey(e, d) :> RewardDeltaValue(lo, hi))]

----------------------------------------------------------------------------
\* Storage keys and values

\* masp_scheduled_reward_precision_key(&target_masp_epoch, &token_address)
masp_scheduled_reward_precision_key(target, token) ==
    [kind |-> "reward_precision", epoch |-> target, token |-> token]

\* masp_scheduled_base_native_precision_key(&target_masp_epoch)
masp_scheduled_base_native_precision_key(target) ==
    [kind |-> "base_native_precision", epoch |-> target]

\* masp_conversion_key(&target_masp_epoch, &asset_type)
masp_conversion_key(target, asset) ==
    [kind |-> "conversion", epoch |-> target, asset |-> asset]

\* the serialized value of ctx.write(key, precision)
PrecisionValue(p) == [kind |-> "precision", amount |-> p]

\* the serialized value of ctx.write(key, reward.clone())
ConversionValue(s) == [kind |-> "conversion", sum |-> s]

\* the key encoded for the successor epoch
KeyAssetTypeNextEpoch(token, denomination, d, e) ==
    [token |-> token, denomination |-> denomination, position |-> d,
     epoch |-> e + 1]

\* lines 166-173: the asset type of the conversion key, encoded directly
KeyAssetType(token, denomination, d, e) ==
    encode_asset_type(token, denomination, d, e)

\* the effect of a successful ctx.write on the staged writes
Put(m, key, value) ==
    [k \in DOMAIN m \cup {key} |-> IF k = key THEN value ELSE m[k]]

\* the result of ctx.write ignored
PropagateIgnored(ok, continue) == continue

\* the ? after ctx.write (lines 147, 154, 176): an Err returns at once
Propagate(ok, continue) == IF ok THEN continue ELSE "err"

----------------------------------------------------------------------------
\* The state before apply_tx runs

\* The persisted state the migration starts from: nothing scheduled for the
\* target epoch yet, or records of an earlier schedule under keys the
\* migration rewrites.
PreStates(target) ==
    LET t1 == unwrap(ResolveAddress(TOKENS[1].token_address))
        k1 == masp_scheduled_reward_precision_key(target, t1)
        a1 == encode_asset_type(t1, TOKENS[1].denomination, MaspDigitPos[1],
                                MaspEpochZero)
        k2 == masp_conversion_key(target, a1)
    IN  { EmptyMap,
          Put(Put(EmptyMap, k1, PrecisionValue(1)),
              k2, ConversionValue(from_pair(a1, 1))) }

Init ==
    /\ pc = "start"
    /\ epoch \in 0..MaxEpoch
    /\ native_token = None
    /\ target_masp_epoch = None
    /\ tok = 1
    /\ token_address = None
    /\ asset_types = EmptyMap
    /\ precision_toks = EmptyMap
    /\ reward_deltas = EmptyMap
    /\ digit = 1
    /\ epochs = <<>>
    /\ reward = ZeroSum
    /\ staged = EmptyMap
    /\ trace = <<>>
    /\ failure = None
    /\ pre \in PreStates(epoch \div MaspEpochMultiplier)
    /\ persisted = pre

----------------------------------------------------------------------------
\* apply_tx

\* lines 87-92: the native token address and the target MASP epoch
Setup ==
    /\ pc = "start"
    /\ native_token' = Address_from_str(NATIVE_TOKEN_BECH32M)
    /\ target_masp_epoch' = try_from_epoch(epoch, MaspEpochMultiplier)
    /\ pc' = IF native_token' = None \/ target_masp_epoch' = None
             THEN "panic" ELSE "token_loop"
    /\ failure' = IF pc' = "panic"
                  THEN Some([kind |-> "panic", writes |-> Len(trace)])
                  ELSE failure
    /\ UNCHANGED <<epoch, tok, token_address, asset_types, precision_toks,
                   reward_deltas, digit, epochs, reward, staged, trace, pre,
                   persisted>>

\* lines 95-109 and 181: the head of the token loop; resolves the address of
\* the next token and starts it with empty caches, or returns Ok(())
TokenLoop ==
    /\ pc = "token_loop"
    /\ IF tok > Len(TOKENS)
       THEN /\ pc' = "ok"
            /\ UNCHANGED <<token_address, asset_types, precision_toks,
                           reward_deltas, failure>>
       ELSE /\ token_address' = ResolveAddress(TOKENS[tok].token_address)
            /\ asset_types' = EmptyMap
            /\ precision_toks' = EmptyMap
            /\ reward_deltas' = EmptyMap
            /\ pc' = IF token_address' = None THEN "panic"
                     ELSE "write_precision"
            /\ failure' = IF pc' = "panic"
                          THEN Some([kind |-> "panic", writes |-> Len(trace)])
                          ELSE failure
    /\ UNCHANGED <<epoch, native_token, target_masp_epoch, tok, digit, epochs,
                   reward, staged, trace, pre, persisted>>

\* ctx.write(key, value)? continuing at pc value continue: the write is staged,
\* or it fails and apply_tx returns the error
Write(key, value, ok, continue) ==
    /\ pc' = Propagate(ok, continue)
    /\ IF ok
       THEN /\ staged' = Put(staged, key, value)
            /\ trace' = Append(trace, [key |-> key, value |-> value])
            /\ UNCHANGED failure
       ELSE /\ failure' = Some([kind |-> "write", writes |-> Len(trace)])
            /\ UNCHANGED <<staged, trace>>

\* lines 143-147: the scheduled reward precision of the current token
WritePrecision ==
    /\ pc = "write_precision"
    /\ \E ok \in BOOLEAN :
          Write(masp_scheduled_reward_precision_key(
                    unwrap(target_masp_epoch), unwrap(token_address)),
                PrecisionValue(TOKENS[tok].precision), ok, "native_check")
    /\ UNCHANGED <<epoch, native_token, target_masp_epoch, tok, token_address,
                   asset_types, precision_toks, reward_deltas, digit, epochs,
                   reward, pre, persisted>>

\* lines 148-157: the base native precision when the current token is the
\* native token; then the digit loop starts
NativeCheck ==
    /\ pc = "native_check"
    /\ IF IsNativeToken(unwrap(token_address), unwrap(native_token))
       THEN \E ok \in BOOLEAN :
               Write(masp_scheduled_base_native_precision_key(
                         unwrap(target_masp_epoch)),
                     PrecisionValue(TOKENS[tok].precision), ok, "digit_loop")
       ELSE /\ pc' = "digit_loop"
            /\ UNCHANGED <<staged, trace, failure>>
    /\ digit' = 1
    /\ UNCHANGED <<epoch, native_token, target_masp_epoch, tok, token_address,
                   asset_types, precision_toks, reward_deltas, epochs, reward,
                   pre, persisted>>

\* lines 157-164: the head of the digit loop; resets the running conversion
\* and builds the descending epoch range, whose upper end is
\* target_masp_epoch.prev().unwrap(); after the last digit the token is done
DigitLoop ==
    /\ pc = "digit_loop"
    /\ IF digit > Len(MaspDigitPos)
       THEN /\ tok' = tok + 1
            /\ pc' = "token_loop"
            /\ UNCHANGED <<reward, epochs, failure>>
       ELSE /\ reward' = ZeroSum
            /\ LET last == LastEpoch(unwrap(target_masp_epoch))
               IN  IF last = None
                   THEN /\ pc' = "panic"
                        /\ failure' = Some([kind |-> "panic",
                                            writes |-> Len(trace)])
                        /\ UNCHANGED epochs
                   ELSE /\ epochs' = rev(iter_bounds_inclusive(
                                             MaspEpochZero, unwrap(last)))
                        /\ pc' = "epoch_loop"
                        /\ UNCHANGED failure
            /\ UNCHANGED tok
    /\ UNCHANGED <<epoch, native_token, target_masp_epoch, token_address,
                   asset_types, precision_toks, reward_deltas, digit, staged,
                   trace, pre, persisted>>

\* lines 165-177: one iteration of the epoch loop, or its end
EpochLoop ==
    /\ pc = "epoch_loop"
    /\ IF epochs = <<>>
       THEN /\ digit' = digit + 1
            /\ pc' = "digit_loop"
            /\ UNCHANGED <<asset_types, precision_toks, reward_deltas, reward,
                           epochs, staged, trace, failure>>
       ELSE LET e == Head(epochs)
                d == MaspDigitPos[digit]
                t == unwrap(token_address)
                dn == TOKENS[tok].denomination
                asset == KeyAssetType(t, dn, d, e)
                c == RewardDeltaStep(
                         [at |-> asset_types, pt |-> precision_toks,
                          rd |-> reward_deltas],
                         t, dn, TOKENS[tok].precision, e, d)
            IN  /\ asset_types' = c.at
                /\ precision_toks' = c.pt
                /\ reward_deltas' = c.rd
                /\ reward' = AddSum(reward, c.rd[CacheKey(e, d)])
                /\ epochs' = Tail(epochs)
                /\ \E ok \in BOOLEAN :
                      Write(masp_conversion_key(unwrap(target_masp_epoch),
                                                asset),
                            ConversionValue(reward'), ok, "epoch_loop")
                /\ UNCHANGED digit
    /\ UNCHANGED <<epoch, native_token, target_masp_epoch, tok, token_address,
                   pre, persisted>>

----------------------------------------------------------------------------
\* The host around apply_tx

\* apply_tx returned Ok(()): the host commits the staged writes
Commit ==
    /\ pc = "ok"
    /\ persisted' = [k \in DOMAIN persisted \cup DOMAIN staged |->
                        IF k \in DOMAIN staged THEN staged[k] ELSE persisted[k]]
    /\ pc' = "committed"
    /\ UNCHANGED <<epoch, native_token, target_masp_epoch, tok, token_address,
                   asset_types, precision_toks, reward_deltas, digit, epochs,
                   reward, staged, trace, failure, pre>>

\* apply_tx returned an error or panicked: the host rejects the transaction
\* and drops the staged writes
Abort ==
    /\ pc \in {"err", "panic"}
    /\ staged' = EmptyMap
    /\ pc' = "rejected"
    /\ UNCHANGED <<epoch, native_token, target_masp_epoch, tok, token_address,
                   asset_types, precision_toks, reward_deltas, digit, epochs,
                   reward, trace, failure, pre, persisted>>

Next ==
    \/ Setup
    \/ TokenLoop
    \/ WritePrecision
    \/ NativeCheck
    \/ DigitLoop
    \/ EpochLoop
    \/ Commit
    \/ Abort

Spec == Init /\ [][Next]_vars

----------------------------------------------------------------------------
\* Vocabulary of the properties

Target == unwrap(target_masp_epoch)
Native == unwrap(native_token)
TokenIds == 1..Len(TOKENS)
Digits == {MaspDigitPos[j] : j \in 1..Len(MaspDigitPos)}
Completed == pc \in {"ok", "committed"}
Ended == pc \in {"ok", "err", "panic", "committed", "rejected"}

\* the address, the asset types and the precision value of the i-th token,
\* computed without any cache
Addr(i) == unwrap(ResolveAddress(TOKENS[i].token_address))
Asset(i, d, e) == encode_asset_type(Addr(i), TOKENS[i].denomination, d, e)
precision_value(i, e, d) == from_pair(Asset(i, d, e), TOKENS[i].precision)

\* +Precision of the asset at the target epoch, -Precision of the asset at e
Telescoped(i, d, e) ==
    { [asset |-> Asset(i, d, Target), amt |-> TOKENS[i].precision],
      [asset |-> Asset(i, d, e), amt |-> 0 - TOKENS[i].precision] }

ScheduleKey(i, d, e) == masp_conversion_key(Target, Asset(i, d, e))
PrecisionKey(i) == masp_scheduled_reward_precision_key(Target, Addr(i))
BaseKey == masp_scheduled_base_native_precision_key(Target)

TraceIds == 1..Len(trace)
IsSchedule(j) == trace[j].key.kind = "conversion"
IsPrecision(j) == trace[j].key.kind = "reward_precision"
IsBase(j) == trace[j].key.kind = "base_native_precision"

\* the writes of the trace that are schedule entries of token i, position d
ScheduleIds(i, d) ==
    {j \in TraceIds : /\ IsSchedule(j)
                      /\ trace[j].key.asset.token = Addr(i)
                      /\ trace[j].key.asset.position = d}

----------------------------------------------------------------------------
\* C1 (telescoping): once the migration has completed, for every token, every
\* digit position and every epoch e below the target epoch, the conversion
\* staged -- and after the commit persisted -- under the key of
\* (target, asset(e, pos)) equals precision_value(target, pos) -
\* precision_value(e, pos), which is +Precision of the asset at the target
\* epoch and -Precision of the asset at e, all intermediate epochs cancelled.
C1_Telescoping ==
    Completed =>
        \A i \in TokenIds : \A d \in Digits : \A e \in 0..(Target - 1) :
            /\ ScheduleKey(i, d, e) \in DOMAIN staged
            /\ staged[ScheduleKey(i, d, e)] =
                 ConversionValue(AddSum(precision_value(i, Target, d),
                                        NegSum(precision_value(i, e, d))))
            /\ staged[ScheduleKey(i, d, e)].sum = Telescoped(i, d, e)
            /\ pc = "committed" =>
                 /\ ScheduleKey(i, d, e) \in DOMAIN persisted
                 /\ persisted[ScheduleKey(i, d, e)].sum = Telescoped(i, d, e)

\* a committed migration over at least two epochs, so that the oldest entry
\* is a sum in which an intermediate epoch has cancelled
C1_Witness ==
    /\ pc = "committed"
    /\ Target >= 2
    /\ persisted[ScheduleKey(1, 0, 0)].sum = Telescoped(1, 0, 0)

\* C2 (range coverage): no schedule entry is ever written for an asset of an
\* epoch at or above the target epoch, and once the migration has completed
\* the epochs with a schedule entry are, for every token and position,
\* exactly 0 .. target-1.
C2_RangeCoverage ==
    /\ \A j \in TraceIds :
          IsSchedule(j) => /\ trace[j].key.asset.epoch >= 0
                           /\ trace[j].key.asset.epoch < Target
    /\ Completed =>
          \A i \in TokenIds : \A d \in Digits :
              /\ {trace[j].key.asset.epoch : j \in ScheduleIds(i, d)}
                   = 0..(Target - 1)
              /\ {e \in 0..(Target + 1) : ScheduleKey(i, d, e) \in DOMAIN staged}
                   = 0..(Target - 1)

C2_Witness ==
    /\ Completed
    /\ Target >= 1
    /\ ScheduleKey(Len(TOKENS), 3, Target - 1) \in DOMAIN staged
    /\ ScheduleKey(Len(TOKENS), 3, Target) \notin DOMAIN staged

C4_ExactlyOneBaseWrite ==
    Completed =>
        /\ Cardinality({j \in TraceIds : IsBase(j)}) = 1
        /\ Cardinality({i \in TokenIds : Addr(i) = Native}) = 1

\* C4, amended: no token of the table equals the native token, so the
\* base-precision record is never written; every token writes its per-token
\* (target, token) precision record, once, with its precision, and that is
\* the only precision record it writes.
C4_NoBaseWrite ==
    /\ \A j \in TraceIds : ~IsBase(j)
    /\ native_token # None => \A i \in TokenIds : Addr(i) # Native
    /\ Completed =>
          /\ BaseKey \notin DOMAIN staged
          /\ \A i \in TokenIds :
                /\ Cardinality({j \in TraceIds :
                                   trace[j].key = PrecisionKey(i)}) = 1
                /\ staged[PrecisionKey(i)] = PrecisionValue(TOKENS[i].precision)
          /\ Cardinality({j \in TraceIds : IsPrecision(j)}) = Len(TOKENS)

C4_Witness ==
    /\ pc = "committed"
    /\ \A i \in TokenIds : PrecisionKey(i) \in DOMAIN persisted
    /\ BaseKey \notin DOMAIN persisted

\* C5 (fail fast, nothing committed): from the first failure on -- a failed
\* storage write or a panic -- apply_tx has stopped, no further write is
\* staged, and the persisted state is the state before the migration; the
\* run is stopped or rejected only after a failure, and a rejected run has
\* no staged write left.
C5_FailFastNothingCommitted ==
    /\ failure # None =>
          /\ pc \in {"err", "panic", "rejected"}
          /\ Len(trace) = unwrap(failure).writes
          /\ persisted = pre
    /\ pc \in {"err", "panic", "rejected"} => failure # None
    /\ pc = "rejected" => staged = EmptyMap /\ persisted = pre
    /\ pc # "committed" => persisted = pre

\* a write that failed after others had been staged, over a non-empty
\* pre-migration state, and the host has rejected the run
C5_Witness ==
    /\ pc = "rejected"
    /\ failure # None
    /\ unwrap(failure).kind = "write"
    /\ unwrap(failure).writes > Len(MaspDigitPos)
    /\ pre # EmptyMap

----------------------------------------------------------------------------
\* The sequence of writes as a function of the inputs alone, computed
\* without the three memoization maps: every precision value and every
\* delta is recomputed at each use.

RECURSIVE RunningSum(_, _, _, _)
RunningSum(i, d, e, target) ==
    LET delta == AddSum(NegSum(precision_value(i, e, d)),
                        precision_value(i, e + 1, d))
    IN  IF e >= target - 1 THEN delta
        ELSE AddSum(RunningSum(i, d, e + 1, target), delta)

RECURSIVE Concat(_)
Concat(ss) == IF ss = <<>> THEN <<>> ELSE Head(ss) \o Concat(Tail(ss))

DigitWrites(i, d, target) ==
    [n \in 1..target |->
        [key |-> masp_conversion_key(target, Asset(i, d, target - n)),
         value |-> ConversionValue(RunningSum(i, d, target - n, target))]]

TokenWrites(i, target, native) ==
    <<[key |-> masp_scheduled_reward_precision_key(target, Addr(i)),
       value |-> PrecisionValue(TOKENS[i].precision)]>>
    \o (IF Addr(i) = native
        THEN <<[key |-> masp_scheduled_base_native_precision_key(target),
                value |-> PrecisionValue(TOKENS[i].precision)]>>
        ELSE <<>>)
    \o Concat([n \in 1..Len(MaspDigitPos) |->
                  DigitWrites(i, MaspDigitPos[n], target)])

ExpectedTrace(target, native) ==
    Concat([i \in 1..Len(TOKENS) |-> TokenWrites(i, target, native)])

\* C6 (determinism): the staged writes are a function of the inputs: at
\* every point of every run the trace is the prefix of the one sequence the
\* token table, the native token and the target epoch determine without the
\* memoization maps, and a completed run has staged all of it -- so two runs
\* from the same inputs stage the same writes and end in the same state,
\* whatever the maps hold and whatever was persisted before.
C6_Determinism ==
    trace # <<>> \/ Completed =>
        LET expected == ExpectedTrace(Target, Native)
        IN  /\ Len(trace) <= Len(expected)
            /\ trace = SubSeq(expected, 1, Len(trace))
            /\ Completed =>
                  /\ trace = expected
                  /\ DOMAIN staged = {expected[j].key : j \in 1..Len(expected)}
                  /\ \A j \in 1..Len(expected) :
                        staged[expected[j].key] = expected[j].value

\* a completed run in which precision_tok answered from its map: the
\* precision value of epoch 1 was inserted for reward_delta(1) and read
\* again for reward_delta(0)
C6_Witness ==
    /\ pc = "ok"
    /\ Target >= 2
    /\ CacheKey(1, 3) \in DOMAIN precision_toks
    /\ CacheKey(0, 3) \in DOMAIN reward_deltas
    /\ trace = ExpectedTrace(Target, Native)

----------------------------------------------------------------------------
\* the token a write belongs to, as its index in TOKENS
TokenOfWrite(j) ==
    LET a == IF IsSchedule(j) THEN trace[j].key.asset.token
             ELSE IF IsPrecision(j) THEN trace[j].key.token
             ELSE Native
    IN  CHOOSE i \in TokenIds : Addr(i) = a

\* C7 (order of the writes): tokens are written in the order of the table,
\* all writes of one token before those of the next; a token's reward
\* precision record precedes its schedule entries; within a digit position
\* the schedule entries are written in strictly descending epoch order: the
\* first is that of epoch target-1 and holds the single one-step delta, the
\* last is that of epoch 0 and holds the full sum.
C7_WriteOrder ==
    /\ \A j \in 1..(Len(trace) - 1) : TokenOfWrite(j) <= TokenOfWrite(j + 1)
    /\ \A j \in TraceIds :
          IsPrecision(j) =>
              \A k \in 1..(j - 1) : TokenOfWrite(k) < TokenOfWrite(j)
    /\ \A i \in TokenIds : \A d \in Digits :
          LET ids == ScheduleIds(i, d)
          IN  ids # {} =>
                LET first == CHOOSE j \in ids : \A k \in ids : j <= k
                    last == CHOOSE j \in ids : \A k \in ids : k <= j
                IN  /\ \E k \in 1..(first - 1) : trace[k].key = PrecisionKey(i)
                    /\ \A j, k \in ids :
                          j < k => trace[j].key.asset.epoch
                                     > trace[k].key.asset.epoch
                    /\ trace[first].key.asset.epoch = Target - 1
                    /\ trace[first].value.sum =
                         AddSum(NegSum(precision_value(i, Target - 1, d)),
                                precision_value(i, Target, d))
                    /\ Completed =>
                         /\ trace[last].key.asset.epoch = 0
                         /\ trace[last].value.sum = Telescoped(i, d, 0)

\* a completed run over at least two epochs: the second token's precision
\* record follows the first token's last schedule entry, and epoch 1 is
\* written before epoch 0
C7_Witness ==
    /\ Completed
    /\ Target >= 2
    /\ \E j, k \in TraceIds :
          /\ k = j + 1
          /\ trace[j].key = ScheduleKey(1, 3, 0)
          /\ trace[k].key = PrecisionKey(2)
    /\ \E j, k \in TraceIds :
          /\ j < k
          /\ trace[j].key = ScheduleKey(2, 0, 1)
          /\ trace[k].key = ScheduleKey(2, 0, 0)

\* the epochs the caches of the current token hold entries for
DeltaEpochs == {k[1] : k \in DOMAIN reward_deltas}
PrecisionEpochs == {k[1] : k \in DOMAIN precision_toks}
AssetEpochs ==
    {k[1] : k \in DOMAIN asset_types}
    \cup {asset_types[k].epoch : k \in DOMAIN asset_types}

\* C8 (epochs referenced): reward_delta is computed only for epochs e with
\* 0 <= e < target, so the successor it asks for is at most the target
\* epoch; every epoch an asset identifier or a precision value is computed
\* for lies in 0 .. target, as does every epoch of a written key or value,
\* and every epoch the loop has still to visit is below the target.
C8_EpochsWithinRange ==
    target_masp_epoch # None =>
        /\ \A e \in DeltaEpochs : 0 <= e /\ e < Target
        /\ \A e \in PrecisionEpochs \cup AssetEpochs : 0 <= e /\ e <= Target
        /\ \A n \in 1..Len(epochs) : 0 <= epochs[n] /\ epochs[n] < Target
        /\ \A j \in TraceIds :
              IsSchedule(j) =>
                  /\ trace[j].key.asset.epoch \in 0..(Target - 1)
                  /\ \A x \in trace[j].value.sum : x.asset.epoch \in 0..Target

\* reward_delta has run for epoch target-1, whose successor is the target
\* epoch itself, and for epoch 0
C8_Witness ==
    /\ pc = "epoch_loop"
    /\ Target >= 2
    /\ Target - 1 \in DeltaEpochs
    /\ 0 \in DeltaEpochs
    /\ Target \in PrecisionEpochs

\* the value a key holds, determined by the key alone
ValueOfKey(k) ==
    IF k.kind = "conversion"
    THEN LET i == CHOOSE n \in TokenIds : Addr(n) = k.asset.token
         IN  ConversionValue(Telescoped(i, k.asset.position, k.asset.epoch))
    ELSE LET i == CHOOSE n \in TokenIds :
                     Addr(n) = (IF k.kind = "reward_precision" THEN k.token
                                ELSE Native)
         IN  PrecisionValue(TOKENS[i].precision)

\* the keys a complete run writes, as a set
AllKeys ==
    {PrecisionKey(i) : i \in TokenIds}
    \cup {BaseKey : i \in {n \in TokenIds : Addr(n) = Native}}
    \cup {ScheduleKey(i, d, e) :
            i \in TokenIds, d \in Digits, e \in 0..(Target - 1)}

\* C9 (disjoint key spaces): no storage key is written twice in a run, so
\* no write overwrites another: every written value is still the staged
\* one; and the state of a completed run is the function that gives every
\* key of the key set the value its own token, position and epoch determine,
\* which does not depend on the order the tokens were processed in.
C9_DisjointKeys ==
    /\ \A j, k \in TraceIds : j # k => trace[j].key # trace[k].key
    /\ pc # "rejected" =>
          /\ \A j \in TraceIds :
                /\ trace[j].key \in DOMAIN staged
                /\ staged[trace[j].key] = trace[j].value
          /\ Cardinality(DOMAIN staged) = Len(trace)
    /\ Completed =>
          /\ DOMAIN staged = AllKeys
          /\ Cardinality(AllKeys) =
                Len(TOKENS) * (1 + Len(MaspDigitPos) * Target)
          /\ \A k \in AllKeys : staged[k] = ValueOfKey(k)

C9_Witness ==
    /\ Completed
    /\ Target >= 1
    /\ Len(trace) = Len(TOKENS) * (1 + Len(MaspDigitPos) * Target)
    /\ Cardinality(DOMAIN staged) = Len(trace)

\* C10 (key and value agree): the asset identifier of every schedule key is
\* the one the memoized asset_type holds for the key's epoch and position
\* and the one precision_tok built its value from, and the written value
\* carries exactly that identifier with coefficient -Precision and the
\* identifier of the same token and position at the target epoch with
\* +Precision.
C10_KeyMatchesValue ==
    \A j \in TraceIds :
        IsSchedule(j) =>
            LET a == trace[j].key.asset
                i == TokenOfWrite(j)
                v == trace[j].value.sum
                k == CacheKey(a.epoch, a.position)
            IN  /\ Get(v, a) = 0 - TOKENS[i].precision
                /\ \A x \in v :
                      /\ x.asset.token = a.token
                      /\ x.asset.position = a.position
                      /\ x.asset.denomination = a.denomination
                      /\ x.amt < 0 => x.asset = a
                /\ (token_address = Some(a.token)) =>
                      /\ k \in DOMAIN asset_types
                      /\ asset_types[k] = a
                      /\ k \in DOMAIN precision_toks
                      /\ precision_toks[k] = from_pair(a, TOKENS[i].precision)

\* schedule entries of the current token have been written in a digit
\* position other than the first, and the caches hold their asset types
C10_Witness ==
    /\ pc = "epoch_loop"
    /\ digit > 1
    /\ \E j \in TraceIds :
          /\ IsSchedule(j)
          /\ token_address = Some(trace[j].key.asset.token)
          /\ trace[j].key.asset.position = MaspDigitPos[digit]
          /\ asset_types[CacheKey(trace[j].key.asset.epoch,
                                  trace[j].key.asset.position)]
                = trace[j].key.asset

====
